---- MODULE Spec2Model ----
(***************************************************************************)
(* Model of the client-side proxy core, cpp/src/Ice/Proxy.cpp.             *)
(*                                                                         *)
(* Part 1: the cached request-handler slot of one proxy and the            *)
(*         invocation loop that drives __getRequestHandler,                *)
(*         __setRequestHandler, __updateRequestHandler, __handleException. *)
(* Part 2: the proxies a client holds and the ice_X derivations that make  *)
(*         new proxies from them.                                          *)
(* Part 3: the two-way-only check of the built-in operations.              *)
(* Part 4: the handle comparators, the end of ice_invoke,                  *)
(*         ice_getCachedConnection and __getBatchRequestQueue.             *)
(***************************************************************************)
EXTENDS Integers, Sequences, FiniteSets, TLC

\* ------------------------------------------------------------------ bounds
NumThreads == 2
MaxHandlers == 2
MaxRetries == 1
MaxProxies == 2
MaxEncaps == 2
MaxQueues == 3

\* ------------------------------------------------------------ value domains
\* A null RequestHandlerPtr (the literal 0 of "__updateRequestHandler(handler, 0)").
Null == 0

Threads == 1..NumThreads

\* Ice::OperationMode.
OperationModes == {"Normal", "Nonmutating", "Idempotent"}

\* The dynamic type of the exception handed to __handleException.  The first
\* three derive from Ice::LocalException, the last one does not.
LocalExceptions ==
    {"CloseConnectionException", "ObjectNotExistException", "ConnectTimeoutException"}
Exceptions == LocalExceptions \cup {"UserException"}

\* What ProxyFactory::checkRetryAfterException can do when it is called.
PolicyOutcomes == {"retry", "rethrow", "destroyed"}

VARIABLES
    cacheConnection,   \* _reference->getCacheConnection() of the proxy
    _requestHandler,   \* the proxy's cached request handler (Null when empty)
    nextHandler,       \* the next handler object the Reference will create
    th,                \* per thread: where it is in binding and its handler
    last,              \* the arguments of the __updateRequestHandler or
                       \* __handleException call just made, if one was
    inv,               \* one invocation followed in full through its retries
    references,        \* the Reference objects, by address (immutable)
    proxies,           \* the proxy objects, by address
    res,               \* the last ice_X call: its arguments and what it returned
    builtin,           \* one call of a built-in operation
    compared,          \* the last comparison of two proxy handles
    ended,             \* one call of end_ice_invoke / ___end_ice_invoke
    cached,            \* one caller of ice_getCachedConnection
    batch              \* the callers of __getBatchRequestQueue

handlerVars == <<cacheConnection, _requestHandler, nextHandler, th, last, inv>>
proxyVars == <<references, proxies, res>>
otherVars == <<compared, ended, cached, batch>>
vars == <<handlerVars, proxyVars, builtin, otherVars>>

\* ------------------------------------------------------------------ helpers
NoCall ==
    [op |-> "none", before |-> Null, previous |-> Null, handler |-> Null]

Call(op, before, previous, handler) ==
    [op |-> op, before |-> before, previous |-> previous, handler |-> handler]

IdleThread ==
    [pc |-> "idle", handler |-> Null]

\* _mode, _handler, _sent, _cnt of the invocation, the exception of its failed
\* attempt, the number of attempts handed to a handler, and what the last
\* __handleException call was given (failure), met (policy) and did.
IdleInvocation ==
    [pc |-> "idle", mode |-> "Normal", handler |-> Null, sent |-> FALSE,
     ex |-> "none", cnt |-> 0, attempts |-> 0,
     failure |-> [ex |-> "none", sent |-> FALSE, cnt |-> 0],
     policy |-> "none", consulted |-> FALSE, returned |-> FALSE, raised |-> "none"]

\* ---------------------------------------------------------- pure operations
\* dynamic_cast<const LocalException*>(&ex)
isLocalException(ex) == ex \in LocalExceptions

\* RequestHandler::update(previous, newHandler), called on the cached handler.
RequestHandler_update(self, previous, newHandler) ==
    IF previous = self THEN newHandler ELSE self

\* __getRequestHandler: the cached handler if there is one, else the handler
\* `fresh` that _reference->getRequestHandler(this) returns.
__getRequestHandler(cache, slot, fresh) ==
    IF cache /\ slot # Null THEN slot ELSE fresh

\* __setRequestHandler(handler): the new slot and the handler returned.
setRequestHandlerOverwrite(cache, slot, handler) ==
    IF cache THEN [slot |-> handler, ret |-> handler]
    ELSE [slot |-> slot, ret |-> handler]

setRequestHandlerIgnoreCacheConnection(cache, slot, handler) ==
    IF slot = Null
    THEN [slot |-> handler, ret |-> handler]
    ELSE [slot |-> slot, ret |-> slot]

__setRequestHandler(cache, slot, handler) ==
    IF cache
    THEN IF slot = Null
         THEN [slot |-> handler, ret |-> handler]
         ELSE [slot |-> slot, ret |-> slot]
    ELSE [slot |-> slot, ret |-> handler]

\* __updateRequestHandler(previous, handler): the new slot.
updateRequestHandlerStore(cache, slot, previous, handler) ==
    IF cache /\ previous # Null /\ slot # Null THEN handler ELSE slot

updateRequestHandlerRebind(cache, slot, previous, handler) ==
    IF cache /\ previous # Null
    THEN IF slot # handler
         THEN IF slot = Null THEN handler
              ELSE RequestHandler_update(slot, previous, handler)
         ELSE slot
    ELSE slot

__updateRequestHandler(cache, slot, previous, handler) ==
    IF cache /\ previous # Null
    THEN IF slot # Null /\ slot # handler
         THEN RequestHandler_update(slot, previous, handler)
         ELSE slot
    ELSE slot

\* The condition of the if statement of __handleException.
retryPermittedAnyException(ex, mode, sent) ==
    \/ ~sent
    \/ mode = "Nonmutating" \/ mode = "Idempotent"
    \/ ex = "CloseConnectionException"
    \/ ex = "ObjectNotExistException"

retryPermittedIgnoreSent(ex, mode, sent) ==
    isLocalException(ex)

retryPermitted(ex, mode, sent) ==
    /\ isLocalException(ex)
    /\ \/ ~sent
       \/ mode = "Nonmutating" \/ mode = "Idempotent"
       \/ ex = "CloseConnectionException"
       \/ ex = "ObjectNotExistException"

\* ProxyFactory::checkRetryAfterException(ex, ref, cnt): returns a delay with
\* cnt incremented, or throws ex when the attempts are used up, or throws
\* CommunicatorDestroyedException.
checkRetryAfterException(ex, cnt, policy) ==
    CASE policy = "retry" ->
           [returned |-> TRUE, thrown |-> "none", cnt |-> cnt + 1]
      [] policy = "rethrow" ->
           [returned |-> FALSE, thrown |-> ex, cnt |-> cnt + 1]
      [] OTHER ->
           [returned |-> FALSE, thrown |-> "CommunicatorDestroyedException", cnt |-> cnt]

\* __handleException(ex, handler, mode, sent, cnt): the new slot, whether the
\* policy was consulted, whether a delay was returned, the exception that
\* leaves the function ("none" when it returns) and the new cnt.
handleExceptionLeakDestroyed(cache, slot, ex, handler, mode, sent, cnt, policy) ==
    LET cleared == __updateRequestHandler(cache, slot, handler, Null)
        r == checkRetryAfterException(ex, cnt, policy)
    IN  IF retryPermitted(ex, mode, sent)
        THEN [slot |-> cleared, consulted |-> TRUE, returned |-> r.returned,
              raised |-> r.thrown, cnt |-> r.cnt]
        ELSE [slot |-> cleared, consulted |-> FALSE, returned |-> FALSE,
              raised |-> ex, cnt |-> cnt]

handleExceptionKeepHandler(cache, slot, ex, handler, mode, sent, cnt, policy) ==
    LET r == checkRetryAfterException(ex, cnt, policy)
    IN  IF retryPermitted(ex, mode, sent)
        THEN IF r.thrown = "CommunicatorDestroyedException"
             THEN [slot |-> slot, consulted |-> TRUE, returned |-> FALSE,
                   raised |-> ex, cnt |-> r.cnt]
             ELSE [slot |-> slot, consulted |-> TRUE, returned |-> r.returned,
                   raised |-> r.thrown, cnt |-> r.cnt]
        ELSE [slot |-> slot, consulted |-> FALSE, returned |-> FALSE,
              raised |-> ex, cnt |-> cnt]

__handleException(cache, slot, ex, handler, mode, sent, cnt, policy) ==
    LET cleared == __updateRequestHandler(cache, slot, handler, Null)
        r == checkRetryAfterException(ex, cnt, policy)
    IN  IF retryPermitted(ex, mode, sent)
        THEN IF r.thrown = "CommunicatorDestroyedException"
             THEN [slot |-> cleared, consulted |-> TRUE, returned |-> FALSE,
                   raised |-> ex, cnt |-> r.cnt]
             ELSE [slot |-> cleared, consulted |-> TRUE, returned |-> r.returned,
                   raised |-> r.thrown, cnt |-> r.cnt]
        ELSE [slot |-> cleared, consulted |-> FALSE, returned |-> FALSE,
              raised |-> ex, cnt |-> cnt]

\* ------------------------------------------------- references and proxies
\* Reference::Mode.
Modes ==
    {"ModeTwoway", "ModeOneway", "ModeBatchOneway", "ModeDatagram", "ModeBatchDatagram"}

\* The values the ice_X operations are called with.
Identities == [name : {"", "acc", "bob"}, category : {""}]
Facets == {"", "admin"}
Contexts == {{}, {<<"k", "v">>}}
AdapterIds == {"", "adapter"}
EndpointSeqs == {<<>>, <<"tcp">>}
EncodingVersions == {<<1, 0>>, <<1, 1>>}
EndpointSelectionTypes == {"Random", "Ordered"}
RouterPrxs == {"null", "router"}
LocatorPrxs == {"null", "locator"}
ConnectionIds == {"", "c1"}
Timeouts == -3..2

\* The dynamic type of a proxy object: the base proxy class or a generated
\* subclass, whose __newInstance makes a proxy of the subclass.
ProxyTypes == {"Object", "Derived"}

\* The Reference a bootstrap proxy starts from: reached through its
\* endpoints (direct) or through its adapter id (indirect).
InitialReference(addressing) ==
    [identity |-> [name |-> "acc", category |-> ""],
     facet |-> "",
     mode |-> "ModeTwoway",
     secure |-> FALSE,
     preferSecure |-> FALSE,
     encoding |-> <<1, 1>>,
     compress |-> [override |-> FALSE, value |-> FALSE],
     context |-> {},
     endpoints |-> IF addressing = "direct" THEN <<"tcp">> ELSE <<>>,
     adapterId |-> IF addressing = "direct" THEN "" ELSE "adapter",
     locator |-> "null",
     router |-> "null",
     cacheConnection |-> TRUE,
     collocationOptimized |-> TRUE,
     endpointSelection |-> "Random",
     locatorCacheTimeout |-> -1,
     invocationTimeout |-> -1,
     timeout |-> -1,
     connectionId |-> ""]

\* setup(ref) on a new proxy object: _reference = ref, nothing cached.
setup(type, ref) ==
    [type |-> type, _reference |-> ref, _requestHandler |-> Null,
     _batchRequestQueue |-> Null]

NoResult ==
    [op |-> "none", src |-> 0, arg |-> 0, outcome |-> "none", ex |-> "none",
     ret |-> 0, srcBefore |-> 0, proxiesBefore |-> 0]

OneProxy(type, addressing) ==
    /\ references = <<InitialReference(addressing)>>
    /\ proxies = <<setup(type, 1)>>
    /\ res = NoResult

\* The Reference of proxy p.
Ref(p) == references[proxies[p]._reference]

\* What a Reference::changeX call returns: the address of the Reference it
\* returns and, when that is a new object, the object.
SameReference(r) == [ptr |-> r, alloc |-> <<>>]
NewReference(obj) == [ptr |-> Len(references) + 1, alloc |-> <<obj>>]

\* Reference::changeX(value) for an attribute with no coupling: the same
\* Reference when the value is the current one, else a copy with X replaced.
Reference_change(r, attribute, value) ==
    IF references[r][attribute] = value
    THEN SameReference(r)
    ELSE NewReference([references[r] EXCEPT ![attribute] = value])

\* Reference::changeAdapterId: replaces the adapter id and clears the endpoints.
Reference_changeAdapterId(r, newAdapterId) ==
    IF references[r].adapterId = newAdapterId
    THEN SameReference(r)
    ELSE NewReference([references[r] EXCEPT !.adapterId = newAdapterId,
                                             !.endpoints = <<>>])

\* Reference::changeEndpoints: replaces the endpoints and clears the adapter id.
Reference_changeEndpoints(r, newEndpoints) ==
    IF references[r].endpoints = newEndpoints
    THEN SameReference(r)
    ELSE NewReference([references[r] EXCEPT !.endpoints = newEndpoints,
                                             !.adapterId = ""])

\* Reference::changeCompress(b): compression is overridden with b.
Reference_changeCompress(r, b) ==
    Reference_change(r, "compress", [override |-> TRUE, value |-> b])

\* What an ice_X call does: throws, returns this proxy, or returns a new proxy
\* of dynamic type `type` set up with the Reference `ch`.
Throw(ex) ==
    [outcome |-> "throw", ex |-> ex, type |-> "none", ch |-> SameReference(0)]
ReturnThis ==
    [outcome |-> "this", ex |-> "none", type |-> "none", ch |-> SameReference(0)]
ReturnNew(type, ch) ==
    [outcome |-> "new", ex |-> "none", type |-> type, ch |-> ch]

\* ObjectPrxPtr proxy = __newInstance(): a proxy of the dynamic type of p.
__newInstance(p) == proxies[p].type

\* ---- the getters
ice_getIdentity(p) == Ref(p).identity
ice_getContext(p) == Ref(p).context
ice_getFacet(p) == Ref(p).facet
ice_getAdapterId(p) == Ref(p).adapterId
\* Copies the endpoints one by one into an EndpointSeq.
ice_getEndpoints(p) ==
    [i \in 1..Len(Ref(p).endpoints) |-> Ref(p).endpoints[i]]
ice_getLocatorCacheTimeout(p) == Ref(p).locatorCacheTimeout
ice_isConnectionCached(p) == Ref(p).cacheConnection
ice_getEndpointSelection(p) == Ref(p).endpointSelection
ice_isSecure(p) == Ref(p).secure
ice_getEncodingVersion(p) == Ref(p).encoding
ice_isPreferSecure(p) == Ref(p).preferSecure
ice_getRouter(p) == Ref(p).router
ice_getLocator(p) == Ref(p).locator
ice_isCollocationOptimized(p) == Ref(p).collocationOptimized
ice_getInvocationTimeout(p) == Ref(p).invocationTimeout
ice_getConnectionId(p) == Ref(p).connectionId
ice_isTwoway(p) == Ref(p).mode = "ModeTwoway"
ice_isOneway(p) == Ref(p).mode = "ModeOneway"
ice_isBatchOneway(p) == Ref(p).mode = "ModeBatchOneway"
ice_isDatagram(p) == Ref(p).mode = "ModeDatagram"
ice_isBatchDatagram(p) == Ref(p).mode = "ModeBatchDatagram"

\* ---- the derivations
ice_identityAnyName(p, newIdentity) ==
    IF newIdentity = Ref(p).identity
    THEN ReturnThis
    ELSE ReturnNew("Object",
                   Reference_change(proxies[p]._reference, "identity", newIdentity))

ice_identity(p, newIdentity) ==
    IF newIdentity.name = ""
    THEN Throw("IllegalIdentityException")
    ELSE IF newIdentity = Ref(p).identity
         THEN ReturnThis
         ELSE ReturnNew("Object",
                        Reference_change(proxies[p]._reference, "identity", newIdentity))

ice_context(p, newContext) ==
    ReturnNew(__newInstance(p),
              Reference_change(proxies[p]._reference, "context", newContext))

ice_facetSameReference(p, newFacet) ==
    IF newFacet = Ref(p).facet
    THEN ReturnThis
    ELSE ReturnNew("Object", SameReference(proxies[p]._reference))

ice_facet(p, newFacet) ==
    IF newFacet = Ref(p).facet
    THEN ReturnThis
    ELSE ReturnNew("Object",
                   Reference_change(proxies[p]._reference, "facet", newFacet))

ice_adapterId(p, newAdapterId) ==
    IF newAdapterId = Ref(p).adapterId
    THEN ReturnThis
    ELSE ReturnNew(__newInstance(p),
                   Reference_changeAdapterId(proxies[p]._reference, newAdapterId))

ice_endpoints(p, newEndpoints) ==
    LET endpoints == [i \in 1..Len(newEndpoints) |-> newEndpoints[i]]
    IN  IF endpoints = Ref(p).endpoints
        THEN ReturnThis
        ELSE ReturnNew(__newInstance(p),
                       Reference_changeEndpoints(proxies[p]._reference, endpoints))

ice_locatorCacheTimeout(p, newTimeout) ==
    IF newTimeout < -1
    THEN Throw("IllegalArgumentException")
    ELSE IF newTimeout = Ref(p).locatorCacheTimeout
         THEN ReturnThis
         ELSE ReturnNew(__newInstance(p),
                        Reference_change(proxies[p]._reference,
                                         "locatorCacheTimeout", newTimeout))

ice_connectionCached(p, newCache) ==
    IF newCache = Ref(p).cacheConnection
    THEN ReturnThis
    ELSE ReturnNew(__newInstance(p),
                   Reference_change(proxies[p]._reference, "cacheConnection", newCache))

ice_endpointSelection(p, newType) ==
    IF newType = Ref(p).endpointSelection
    THEN ReturnThis
    ELSE ReturnNew(__newInstance(p),
                   Reference_change(proxies[p]._reference, "endpointSelection", newType))

ice_secure(p, b) ==
    IF b = Ref(p).secure
    THEN ReturnThis
    ELSE ReturnNew(__newInstance(p),
                   Reference_change(proxies[p]._reference, "secure", b))

ice_encodingVersion(p, encoding) ==
    IF encoding = Ref(p).encoding
    THEN ReturnThis
    ELSE ReturnNew(__newInstance(p),
                   Reference_change(proxies[p]._reference, "encoding", encoding))

ice_preferSecure(p, b) ==
    IF b = Ref(p).preferSecure
    THEN ReturnThis
    ELSE ReturnNew(__newInstance(p),
                   Reference_change(proxies[p]._reference, "preferSecure", b))

\* The derivations that compare the Reference that changeX returns with
\* _reference: "if(ref == _reference) return this; else new proxy".
ThisIfSame(p, ch) ==
    IF ch.ptr = proxies[p]._reference
    THEN ReturnThis
    ELSE ReturnNew(__newInstance(p), ch)

ice_router(p, router) ==
    ThisIfSame(p, Reference_change(proxies[p]._reference, "router", router))

ice_locator(p, locator) ==
    ThisIfSame(p, Reference_change(proxies[p]._reference, "locator", locator))

ice_collocationOptimized(p, b) ==
    IF b = Ref(p).collocationOptimized
    THEN ReturnThis
    ELSE ReturnNew(__newInstance(p),
                   Reference_change(proxies[p]._reference, "collocationOptimized", b))

ice_invocationTimeoutNoMinusTwo(p, newTimeout) ==
    IF newTimeout < 1 /\ newTimeout # -1
    THEN Throw("IllegalArgumentException")
    ELSE IF newTimeout = Ref(p).invocationTimeout
         THEN ReturnThis
         ELSE ReturnNew(__newInstance(p),
                        Reference_change(proxies[p]._reference,
                                         "invocationTimeout", newTimeout))

ice_invocationTimeout(p, newTimeout) ==
    IF newTimeout < 1 /\ newTimeout # -1 /\ newTimeout # -2
    THEN Throw("IllegalArgumentException")
    ELSE IF newTimeout = Ref(p).invocationTimeout
         THEN ReturnThis
         ELSE ReturnNew(__newInstance(p),
                        Reference_change(proxies[p]._reference,
                                         "invocationTimeout", newTimeout))

\* ice_twoway, ice_oneway, ice_batchOneway, ice_datagram, ice_batchDatagram.
ice_mode(p, mode) ==
    IF Ref(p).mode = mode
    THEN ReturnThis
    ELSE ReturnNew(__newInstance(p),
                   Reference_change(proxies[p]._reference, "mode", mode))

ice_twoway(p) == ice_mode(p, "ModeTwoway")
ice_oneway(p) == ice_mode(p, "ModeOneway")
ice_batchOneway(p) == ice_mode(p, "ModeBatchOneway")
ice_datagram(p) == ice_mode(p, "ModeDatagram")
ice_batchDatagram(p) == ice_mode(p, "ModeBatchDatagram")

ice_compress(p, b) ==
    ThisIfSame(p, Reference_changeCompress(proxies[p]._reference, b))

ice_timeout(p, t) ==
    IF t < 1 /\ t # -1
    THEN Throw("IllegalArgumentException")
    ELSE ThisIfSame(p, Reference_change(proxies[p]._reference, "timeout", t))

ice_connectionId(p, id) ==
    ThisIfSame(p, Reference_change(proxies[p]._reference, "connectionId", id))

\* ------------------------------------------------- built-in operations
\* The two language mappings the file is built for (ICE_CPP11_MAPPING or not).
Mappings == {"cpp98", "cpp11"}
BuiltinOperations == {"ice_isA", "ice_ids", "ice_id", "ice_ping"}

NoBuiltin ==
    [pc |-> "idle", mapping |-> "cpp98", mode |-> "ModeTwoway", op |-> "ice_ping",
     sync |-> FALSE, raised |-> "none", created |-> FALSE, submitted |-> FALSE]

\* IceProxy::Ice::Object::__checkTwowayOnly(name, sync): the exception thrown.
__checkTwowayOnly(mode, sync) ==
    IF mode # "ModeTwoway"
    THEN IF sync THEN "TwowayOnlyException" ELSE "IllegalArgumentException"
    ELSE "none"

\* Ice::ObjectPrx::__checkTwowayOnly(name) of the C++11 mapping.
ObjectPrx__checkTwowayOnly(mode) ==
    IF mode # "ModeTwoway" THEN "IllegalArgumentException" ELSE "none"

\* What a call of a built-in operation does: the exception it throws, whether
\* an invocation object (OutgoingAsync) exists by then, and whether the
\* request was submitted (invoke called on it).
Checked(ex, createdBefore) ==
    IF ex # "none"
    THEN [raised |-> ex, created |-> createdBefore, submitted |-> FALSE]
    ELSE [raised |-> "none", created |-> TRUE, submitted |-> TRUE]

Unchecked == [raised |-> "none", created |-> TRUE, submitted |-> TRUE]

\* C++98 mapping: the check comes first, then "new CallbackOutgoing".
__begin_ice_isA(mode, sync) == Checked(__checkTwowayOnly(mode, sync), FALSE)
__begin_ice_ids(mode, sync) == Checked(__checkTwowayOnly(mode, sync), FALSE)
__begin_ice_id(mode, sync) == Checked(__checkTwowayOnly(mode, sync), FALSE)
__begin_ice_ping(mode, sync) == Unchecked

\* C++11 mapping: the caller passes the OutgoingAsync it has made.
__ice_isA(mode) == Checked(ObjectPrx__checkTwowayOnly(mode), TRUE)
__ice_ids(mode) == Checked(ObjectPrx__checkTwowayOnly(mode), TRUE)
__ice_id(mode) == Checked(ObjectPrx__checkTwowayOnly(mode), TRUE)
__ice_ping(mode) == Unchecked


\* ------------------------------------------------- comparing proxy handles
\* std::string operator< on the strings that occur: their lexicographic order.
StringOrder == <<"", "acc", "admin", "bob">>
StringLess(a, b) ==
    \E i, j \in 1..Len(StringOrder) :
        StringOrder[i] = a /\ StringOrder[j] = b /\ i < j

\* Ice::Identity operator< and operator==: by name, then by category.
Identity_less(a, b) ==
    \/ StringLess(a.name, b.name)
    \/ a.name = b.name /\ StringLess(a.category, b.category)
Identity_equal(a, b) == a.name = b.name /\ a.category = b.category

\* operator==(const Object&): "_reference == r._reference", which compares
\* the two Reference objects.
Object_equal(l, r) == Ref(l) = Ref(r)

\* The comparators take two proxy handles, each Null or a proxy.
proxyIdentityLess(lhs, rhs) ==
    IF lhs = Null /\ rhs = Null THEN FALSE
    ELSE IF lhs = Null /\ rhs # Null THEN TRUE
    ELSE IF lhs # Null /\ rhs = Null THEN FALSE
    ELSE Identity_less(ice_getIdentity(lhs), ice_getIdentity(rhs))

proxyIdentityEqual(lhs, rhs) ==
    IF lhs = Null /\ rhs = Null THEN TRUE
    ELSE IF lhs = Null /\ rhs # Null THEN FALSE
    ELSE IF lhs # Null /\ rhs = Null THEN FALSE
    ELSE Identity_equal(ice_getIdentity(lhs), ice_getIdentity(rhs))

proxyIdentityAndFacetLess(lhs, rhs) ==
    IF lhs = Null /\ rhs = Null THEN FALSE
    ELSE IF lhs = Null /\ rhs # Null THEN TRUE
    ELSE IF lhs # Null /\ rhs = Null THEN FALSE
    ELSE LET lhsIdentity == ice_getIdentity(lhs)
             rhsIdentity == ice_getIdentity(rhs)
             lhsFacet == ice_getFacet(lhs)
             rhsFacet == ice_getFacet(rhs)
         IN  IF Identity_less(lhsIdentity, rhsIdentity) THEN TRUE
             ELSE IF Identity_less(rhsIdentity, lhsIdentity) THEN FALSE
             ELSE IF StringLess(lhsFacet, rhsFacet) THEN TRUE
             ELSE IF StringLess(rhsFacet, lhsFacet) THEN FALSE
             ELSE FALSE

proxyIdentityAndFacetEqualIdentityOnly(lhs, rhs) ==
    proxyIdentityEqual(lhs, rhs)

proxyIdentityAndFacetEqual(lhs, rhs) ==
    IF lhs = Null /\ rhs = Null THEN TRUE
    ELSE IF lhs = Null /\ rhs # Null THEN FALSE
    ELSE IF lhs # Null /\ rhs = Null THEN FALSE
    ELSE IF Identity_equal(ice_getIdentity(lhs), ice_getIdentity(rhs))
         THEN ice_getFacet(lhs) = ice_getFacet(rhs)
         ELSE FALSE

NoCompared ==
    [op |-> "none", lhs |-> Null, rhs |-> Null, identityLess |-> FALSE,
     identityEqual |-> FALSE, identityAndFacetLess |-> FALSE,
     identityAndFacetEqual |-> FALSE, equal |-> FALSE]

\* ------------------------------------------------- the end of ice_invoke
\* The bytes of an encapsulation and the encapsulations that occur.
Bytes == 0..1
Encapsulations == UNION {[1..n -> Bytes] : n \in 0..MaxEncaps}

\* AsyncResult::__wait(): returns true, returns false (the reply carries a
\* user exception) or throws the local exception the invocation ended with.
WaitOutcomes == {"ok", "userException", "localException"}

\* end_ice_invoke(outEncaps, result) on proxy p, with the outcome of __wait
\* and the reply's parameter encapsulation (v, sz): whether it returns, the
\* bool it returns, the exception that leaves it and the caller's outEncaps.
end_ice_invokeAnyMode(p, wait, reply, outEncaps) ==
    IF wait = "localException"
    THEN [returned |-> FALSE, ok |-> FALSE, raised |-> "LocalException",
          outEncaps |-> outEncaps]
    ELSE [returned |-> TRUE, ok |-> (wait = "ok"), raised |-> "none",
          outEncaps |-> [i \in 1..Len(reply) |-> reply[i]]]

end_ice_invoke(p, wait, reply, outEncaps) ==
    IF wait = "localException"
    THEN [returned |-> FALSE, ok |-> FALSE, raised |-> "LocalException",
          outEncaps |-> outEncaps]
    ELSE [returned |-> TRUE, ok |-> (wait = "ok"), raised |-> "none",
          outEncaps |-> IF Ref(p).mode = "ModeTwoway"
                        THEN [i \in 1..Len(reply) |-> reply[i]]
                        ELSE outEncaps]

\* ___end_ice_invoke: outEncaps is a pair of pointers, set to the reply's
\* encapsulation [first, first + sz).
___end_ice_invoke(p, wait, reply, outEncaps) ==
    IF wait = "localException"
    THEN [returned |-> FALSE, ok |-> FALSE, raised |-> "LocalException",
          outEncaps |-> outEncaps]
    ELSE [returned |-> TRUE, ok |-> (wait = "ok"), raised |-> "none",
          outEncaps |-> IF Ref(p).mode = "ModeTwoway"
                        THEN SubSeq(reply, 1, Len(reply))
                        ELSE outEncaps]

NoEnded ==
    [pc |-> "idle", variant |-> "vector", wait |-> "ok", reply |-> <<>>,
     outEncaps |-> <<>>, outBefore |-> <<>>, returned |-> FALSE, ok |-> FALSE,
     raised |-> "none"]

\* ------------------------------------------------- ice_getCachedConnection
\* The connection of request handler h (connections are the negative numbers).
ConnectionOf(h) == 0 - h

\* RequestHandler::getConnection(): the handler's connection, or a
\* LocalException when the handler could not connect.
RequestHandler_getConnection(h, threw) ==
    IF threw
    THEN [ret |-> Null, thrown |-> "LocalException"]
    ELSE [ret |-> ConnectionOf(h), thrown |-> "none"]

\* ice_getCachedConnection after it has copied _requestHandler to __handler:
\* the connection it returns and the exception that leaves it.
ice_getCachedConnectionRethrow(__handler, threw) ==
    IF __handler # Null
    THEN LET r == RequestHandler_getConnection(__handler, threw)
         IN  [ret |-> r.ret, raised |-> r.thrown]
    ELSE [ret |-> Null, raised |-> "none"]

ice_getCachedConnection(__handler, threw) ==
    IF __handler # Null
    THEN LET r == RequestHandler_getConnection(__handler, threw)
         IN  IF r.thrown = "none"
             THEN [ret |-> r.ret, raised |-> "none"]
             ELSE [ret |-> Null, raised |-> "none"]
    ELSE [ret |-> Null, raised |-> "none"]

NoCached ==
    [pc |-> "idle", handler |-> Null, threw |-> FALSE, ret |-> Null,
     raised |-> "none"]

\* ------------------------------------------------- __getBatchRequestQueue
\* __getBatchRequestQueue, whose body runs under the proxy's mutex: the new
\* slot, the queue returned and whether _reference->getBatchRequestQueue()
\* was called, which returns the queue `fresh`.
getBatchRequestQueueUnguarded(slot, fresh) ==
    [slot |-> fresh, ret |-> fresh, asked |-> TRUE]

__getBatchRequestQueue(slot, fresh) ==
    IF slot = Null
    THEN [slot |-> fresh, ret |-> fresh, asked |-> TRUE]
    ELSE [slot |-> slot, ret |-> slot, asked |-> FALSE]

\* The next queue a Reference will make, how often each proxy has asked its
\* Reference for one, and each thread's call: the proxy and the queue returned.
NoBatch ==
    [next |-> 1,
     asked |-> [p \in 1..MaxProxies |-> 0],
     got |-> [t \in Threads |-> [pc |-> "idle", proxy |-> 0, queue |-> Null]]]

\* ------------------------------------------------- the other calls, not made

NoOtherCalls ==
    /\ compared = NoCompared
    /\ ended = NoEnded
    /\ cached = NoCached
    /\ batch = NoBatch

\* ------------------------------------------------------------------- state
Init ==
    /\ cacheConnection \in BOOLEAN
    /\ _requestHandler = Null
    /\ nextHandler = 1
    /\ th = [t \in Threads |-> IdleThread]
    /\ last = NoCall
    /\ inv = IdleInvocation
    /\ OneProxy("Object", "direct")
    /\ builtin = NoBuiltin
    /\ NoOtherCalls

\* ------------------------------------------- threads sharing the cached slot
\* A thread starts an invocation on the proxy.
Begin(t) ==
    /\ th[t].pc = "idle"
    /\ th' = [th EXCEPT ![t].pc = "get"]
    /\ last' = NoCall
    /\ UNCHANGED <<cacheConnection, _requestHandler, nextHandler, inv>>
    /\ UNCHANGED <<proxyVars, builtin, otherVars>>

\* The thread calls __getRequestHandler.  A handler that comes from the
\* Reference is then offered to __setRequestHandler; a cached one is used.
GetRequestHandler(t) ==
    /\ th[t].pc = "get"
    /\ LET h == __getRequestHandler(cacheConnection, _requestHandler, nextHandler)
       IN  /\ h <= MaxHandlers
           /\ nextHandler' = IF h = nextHandler THEN nextHandler + 1 ELSE nextHandler
           /\ th' = [th EXCEPT ![t].pc = IF h = nextHandler THEN "set" ELSE "submit",
                               ![t].handler = h]
    /\ last' = NoCall
    /\ UNCHANGED <<cacheConnection, _requestHandler, inv>>
    /\ UNCHANGED <<proxyVars, builtin, otherVars>>

\* The thread calls __setRequestHandler with the handler it obtained and
\* goes on with the handler the call returns.
SetRequestHandler(t) ==
    /\ th[t].pc = "set"
    /\ LET r == __setRequestHandler(cacheConnection, _requestHandler, th[t].handler)
       IN  /\ _requestHandler' = r.slot
           /\ th' = [th EXCEPT ![t].pc = "submit", ![t].handler = r.ret]
    /\ last' = NoCall
    /\ UNCHANGED <<cacheConnection, nextHandler, inv>>
    /\ UNCHANGED <<proxyVars, builtin, otherVars>>

\* The request is handed to the handler; the attempt succeeds or fails.
Submit(t) ==
    /\ th[t].pc = "submit"
    /\ \E ok \in BOOLEAN :
         th' = [th EXCEPT ![t].pc = IF ok THEN "done" ELSE "failed"]
    /\ last' = NoCall
    /\ UNCHANGED <<cacheConnection, _requestHandler, nextHandler, inv>>
    /\ UNCHANGED <<proxyVars, builtin, otherVars>>

\* What __handleException can do for a thread whose attempt on `handler`
\* failed, over every exception, mode, sent flag, count and policy outcome.
HandleExceptionResults(handler) ==
    { __handleException(cacheConnection, _requestHandler, ex, handler, mode,
                        sent, cnt, policy) :
        ex \in Exceptions, mode \in OperationModes, sent \in BOOLEAN,
        cnt \in 0..MaxRetries, policy \in PolicyOutcomes }

\* The failed attempt reaches __handleException(ex, handler, mode, sent, cnt);
\* the invocation is retried when it returns and ends otherwise.
HandleException(t) ==
    /\ th[t].pc = "failed"
    /\ \E r \in HandleExceptionResults(th[t].handler) :
         /\ _requestHandler' = r.slot
         /\ th' = [th EXCEPT ![t].pc = IF r.returned THEN "get" ELSE "raised",
                             ![t].handler = IF r.returned THEN Null ELSE @]
    /\ last' = Call("handleException", _requestHandler, th[t].handler, Null)
    /\ UNCHANGED <<cacheConnection, nextHandler, inv>>
    /\ UNCHANGED <<proxyVars, builtin, otherVars>>

\* A connect request handler that has bound its connection notifies the
\* proxy: __updateRequestHandler(previous, handler).
UpdateRequestHandler ==
    /\ \E previous \in 0..(nextHandler - 1), handler \in 1..nextHandler :
         /\ handler <= MaxHandlers
         /\ nextHandler' = IF handler = nextHandler THEN nextHandler + 1 ELSE nextHandler
         /\ _requestHandler' =
              __updateRequestHandler(cacheConnection, _requestHandler, previous, handler)
         /\ last' = Call("update", _requestHandler, previous, handler)
    /\ UNCHANGED <<cacheConnection, th, inv>>
    /\ UNCHANGED <<proxyVars, builtin, otherVars>>

Next ==
    \/ \E t \in Threads : Begin(t)
    \/ \E t \in Threads : GetRequestHandler(t)
    \/ \E t \in Threads : SetRequestHandler(t)
    \/ \E t \in Threads : Submit(t)
    \/ \E t \in Threads : HandleException(t)
    \/ UpdateRequestHandler

Spec == Init /\ [][Next]_vars

\* Threads that invoke on the fresh proxy and whose attempts are not retried:
\* __getRequestHandler, then __setRequestHandler, then the submission.
NextInstall ==
    \/ \E t \in Threads : Begin(t)
    \/ \E t \in Threads : GetRequestHandler(t)
    \/ \E t \in Threads : SetRequestHandler(t)
    \/ \E t \in Threads : Submit(t)

SpecInstall == Init /\ [][NextInstall]_vars

\* --------------------------------- one invocation, followed through retries
\* The invocation starts: an operation of mode `mode`, cnt = 0.
Invoke ==
    /\ inv.pc = "idle"
    /\ \E mode \in OperationModes :
         inv' = [inv EXCEPT !.pc = "get", !.mode = mode]
    /\ UNCHANGED <<cacheConnection, _requestHandler, nextHandler, th, last>>
    /\ UNCHANGED <<proxyVars, builtin, otherVars>>

\* Top of the loop: _sent = false; _handler = __getRequestHandler().
InvokeGetRequestHandler ==
    /\ inv.pc = "get"
    /\ LET h == __getRequestHandler(cacheConnection, _requestHandler, nextHandler)
       IN  /\ h <= MaxHandlers
           /\ nextHandler' = IF h = nextHandler THEN nextHandler + 1 ELSE nextHandler
           /\ inv' = [inv EXCEPT !.pc = IF h = nextHandler THEN "set" ELSE "submit",
                                 !.sent = FALSE, !.ex = "none", !.handler = h]
    /\ UNCHANGED <<cacheConnection, _requestHandler, th, last>>
    /\ UNCHANGED <<proxyVars, builtin, otherVars>>

InvokeSetRequestHandler ==
    /\ inv.pc = "set"
    /\ LET r == __setRequestHandler(cacheConnection, _requestHandler, inv.handler)
       IN  /\ _requestHandler' = r.slot
           /\ inv' = [inv EXCEPT !.pc = "submit", !.handler = r.ret]
    /\ UNCHANGED <<cacheConnection, nextHandler, th, last>>
    /\ UNCHANGED <<proxyVars, builtin, otherVars>>

\* The request is handed to the handler: it is written to the wire or not
\* (sent), and the attempt succeeds or fails with an exception.
InvokeSubmit ==
    /\ inv.pc = "submit"
    /\ \E sent \in BOOLEAN, ex \in Exceptions \cup {"none"} :
         /\ ex = "none" => sent
         /\ inv' = [inv EXCEPT !.pc = IF ex = "none" THEN "done" ELSE "failed",
                               !.sent = sent, !.ex = ex, !.attempts = @ + 1]
    /\ UNCHANGED <<cacheConnection, _requestHandler, nextHandler, th, last>>
    /\ UNCHANGED <<proxyVars, builtin, otherVars>>

\* The failure reaches __handleException(ex, _handler, _mode, _sent, _cnt).
InvokeHandleException ==
    /\ inv.pc = "failed"
    /\ \E policy \in PolicyOutcomes :
         LET r == __handleException(cacheConnection, _requestHandler, inv.ex,
                                    inv.handler, inv.mode, inv.sent, inv.cnt, policy)
         IN  /\ (r.consulted /\ policy = "retry") => inv.cnt < MaxRetries
             /\ _requestHandler' = r.slot
             /\ inv' = [inv EXCEPT !.pc = IF r.returned THEN "retry" ELSE "raised",
                                   !.cnt = r.cnt,
                                   !.failure = [ex |-> inv.ex, sent |-> inv.sent,
                                                cnt |-> inv.cnt],
                                   !.policy = IF r.consulted THEN policy ELSE "none",
                                   !.consulted = r.consulted,
                                   !.returned = r.returned,
                                   !.raised = r.raised]
    /\ UNCHANGED <<cacheConnection, nextHandler, th, last>>
    /\ UNCHANGED <<proxyVars, builtin, otherVars>>

\* The delay that __handleException returned has passed: the loop runs again.
InvokeRetry ==
    /\ inv.pc = "retry"
    /\ inv' = [inv EXCEPT !.pc = "get"]
    /\ UNCHANGED <<cacheConnection, _requestHandler, nextHandler, th, last>>
    /\ UNCHANGED <<proxyVars, builtin, otherVars>>

NextRetry ==
    \/ Invoke
    \/ InvokeGetRequestHandler
    \/ InvokeSetRequestHandler
    \/ InvokeSubmit
    \/ InvokeHandleException
    \/ InvokeRetry

SpecRetry == Init /\ [][NextRetry]_vars

\* ------------------------------------------------------------ derivations
InitDerive ==
    /\ cacheConnection = TRUE
    /\ _requestHandler = Null
    /\ nextHandler = 1
    /\ th = [t \in Threads |-> IdleThread]
    /\ last = NoCall
    /\ inv = IdleInvocation
    /\ \E type \in ProxyTypes, addressing \in {"direct", "indirect"} :
         OneProxy(type, addressing)
    /\ builtin = NoBuiltin
    /\ NoOtherCalls

\* (A derivation that put the new Reference into the proxy it was called on.)
DeriveInPlace(op, p, arg, r) ==
    /\ res.op = "none"
    /\ references' = IF r.outcome = "new" THEN references \o r.ch.alloc ELSE references
    /\ proxies' = IF r.outcome = "new"
                  THEN [proxies EXCEPT ![p]._reference = r.ch.ptr]
                  ELSE proxies
    /\ res' = [op |-> op, src |-> p, arg |-> arg, outcome |-> r.outcome, ex |-> r.ex,
               ret |-> IF r.outcome = "throw" THEN 0 ELSE p,
               srcBefore |-> proxies[p], proxiesBefore |-> Len(proxies)]
    /\ UNCHANGED <<handlerVars, builtin, otherVars>>

\* The client calls ice_X(arg) on proxy p, which does r: a new proxy is a new
\* object set up with the new Reference; otherwise no object is made or
\* changed.
Derive(op, p, arg, r) ==
    /\ res.op = "none"
    /\ r.outcome = "new" => Len(proxies) < MaxProxies
    /\ references' = IF r.outcome = "new" THEN references \o r.ch.alloc ELSE references
    /\ proxies' = IF r.outcome = "new"
                  THEN Append(proxies, setup(r.type, r.ch.ptr))
                  ELSE proxies
    /\ res' = [op |-> op, src |-> p, arg |-> arg, outcome |-> r.outcome, ex |-> r.ex,
               ret |-> CASE r.outcome = "new" -> Len(proxies) + 1
                         [] r.outcome = "this" -> p
                         [] OTHER -> 0,
               srcBefore |-> proxies[p], proxiesBefore |-> Len(proxies)]
    /\ UNCHANGED <<handlerVars, builtin, otherVars>>

\* The client has taken what the call returned or threw.
Return ==
    /\ res.op # "none"
    /\ res' = NoResult
    /\ UNCHANGED <<handlerVars, references, proxies, builtin, otherVars>>

Held == 1..Len(proxies)

NextDerive ==
    \/ \E p \in Held, v \in Identities : Derive("ice_identity", p, v, ice_identity(p, v))
    \/ \E p \in Held, v \in Contexts : Derive("ice_context", p, v, ice_context(p, v))
    \/ \E p \in Held, v \in Facets : Derive("ice_facet", p, v, ice_facet(p, v))
    \/ \E p \in Held, v \in AdapterIds : Derive("ice_adapterId", p, v, ice_adapterId(p, v))
    \/ \E p \in Held, v \in EndpointSeqs : Derive("ice_endpoints", p, v, ice_endpoints(p, v))
    \/ \E p \in Held, v \in Timeouts :
         Derive("ice_locatorCacheTimeout", p, v, ice_locatorCacheTimeout(p, v))
    \/ \E p \in Held, v \in BOOLEAN :
         Derive("ice_connectionCached", p, v, ice_connectionCached(p, v))
    \/ \E p \in Held, v \in EndpointSelectionTypes :
         Derive("ice_endpointSelection", p, v, ice_endpointSelection(p, v))
    \/ \E p \in Held, v \in BOOLEAN : Derive("ice_secure", p, v, ice_secure(p, v))
    \/ \E p \in Held, v \in EncodingVersions :
         Derive("ice_encodingVersion", p, v, ice_encodingVersion(p, v))
    \/ \E p \in Held, v \in BOOLEAN : Derive("ice_preferSecure", p, v, ice_preferSecure(p, v))
    \/ \E p \in Held, v \in RouterPrxs : Derive("ice_router", p, v, ice_router(p, v))
    \/ \E p \in Held, v \in LocatorPrxs : Derive("ice_locator", p, v, ice_locator(p, v))
    \/ \E p \in Held, v \in BOOLEAN :
         Derive("ice_collocationOptimized", p, v, ice_collocationOptimized(p, v))
    \/ \E p \in Held, v \in Timeouts :
         Derive("ice_invocationTimeout", p, v, ice_invocationTimeout(p, v))
    \/ \E p \in Held : Derive("ice_twoway", p, "ModeTwoway", ice_twoway(p))
    \/ \E p \in Held : Derive("ice_oneway", p, "ModeOneway", ice_oneway(p))
    \/ \E p \in Held : Derive("ice_batchOneway", p, "ModeBatchOneway", ice_batchOneway(p))
    \/ \E p \in Held : Derive("ice_datagram", p, "ModeDatagram", ice_datagram(p))
    \/ \E p \in Held :
         Derive("ice_batchDatagram", p, "ModeBatchDatagram", ice_batchDatagram(p))
    \/ \E p \in Held, v \in BOOLEAN : Derive("ice_compress", p, v, ice_compress(p, v))
    \/ \E p \in Held, v \in Timeouts : Derive("ice_timeout", p, v, ice_timeout(p, v))
    \/ \E p \in Held, v \in ConnectionIds :
         Derive("ice_connectionId", p, v, ice_connectionId(p, v))
    \/ Return

SpecDerive == InitDerive /\ [][NextDerive]_vars

\* ------------------------------------------------ built-in operation calls
\* A proxy of any mode, either mapping, any of the four operations, called
\* from the synchronous or the asynchronous call site.
InitBuiltin ==
    /\ cacheConnection = TRUE
    /\ _requestHandler = Null
    /\ nextHandler = 1
    /\ th = [t \in Threads |-> IdleThread]
    /\ last = NoCall
    /\ inv = IdleInvocation
    /\ OneProxy("Object", "direct")
    /\ \E mapping \in Mappings, mode \in Modes, op \in BuiltinOperations,
          sync \in BOOLEAN :
         builtin = [NoBuiltin EXCEPT !.pc = "ready", !.mapping = mapping,
                                     !.mode = mode, !.op = op, !.sync = sync]
    /\ NoOtherCalls

CallBuiltin ==
    /\ builtin.pc = "ready"
    /\ LET mode == builtin.mode
           sync == builtin.sync
           r == IF builtin.mapping = "cpp98"
                THEN CASE builtin.op = "ice_isA" -> __begin_ice_isA(mode, sync)
                       [] builtin.op = "ice_ids" -> __begin_ice_ids(mode, sync)
                       [] builtin.op = "ice_id" -> __begin_ice_id(mode, sync)
                       [] OTHER -> __begin_ice_ping(mode, sync)
                ELSE CASE builtin.op = "ice_isA" -> __ice_isA(mode)
                       [] builtin.op = "ice_ids" -> __ice_ids(mode)
                       [] builtin.op = "ice_id" -> __ice_id(mode)
                       [] OTHER -> __ice_ping(mode)
       IN  builtin' = [builtin EXCEPT !.pc = "called", !.raised = r.raised,
                                      !.created = r.created,
                                      !.submitted = r.submitted]
    /\ UNCHANGED <<handlerVars, proxyVars, otherVars>>

NextBuiltin == CallBuiltin

SpecBuiltin == InitBuiltin /\ [][NextBuiltin]_vars

\* ------------------------------------------------ comparisons of handles
\* The client compares two of its handles, each null or one of its proxies,
\* with the four comparators and, when both are proxies, with operator==.
Compare(lhs, rhs) ==
    /\ res.op = "none"
    /\ compared' =
         [op |-> "compared", lhs |-> lhs, rhs |-> rhs,
          identityLess |-> proxyIdentityLess(lhs, rhs),
          identityEqual |-> proxyIdentityEqual(lhs, rhs),
          identityAndFacetLess |-> proxyIdentityAndFacetLess(lhs, rhs),
          identityAndFacetEqual |-> proxyIdentityAndFacetEqual(lhs, rhs),
          equal |-> IF lhs # Null /\ rhs # Null THEN Object_equal(lhs, rhs)
                    ELSE lhs = rhs]
    /\ UNCHANGED <<handlerVars, proxyVars, builtin, ended, cached, batch>>

\* The proxies compared are the bootstrap proxy and those made from it with
\* ice_identity and ice_facet.
NextCompare ==
    \/ \E p \in Held, v \in Identities : Derive("ice_identity", p, v, ice_identity(p, v))
    \/ \E p \in Held, v \in Facets : Derive("ice_facet", p, v, ice_facet(p, v))
    \/ Return
    \/ \E lhs, rhs \in {Null} \cup Held : Compare(lhs, rhs)

SpecCompare == InitDerive /\ [][NextCompare]_vars

\* ------------------------------------------------ the end of ice_invoke
\* An ice_invoke on a proxy of any mode has completed and the caller is about
\* to call end_ice_invoke (a vector) or ___end_ice_invoke (a pair) with an
\* output buffer that holds anything.  Only a two-way invocation has a reply.
InitEnded ==
    /\ cacheConnection = TRUE
    /\ _requestHandler = Null
    /\ nextHandler = 1
    /\ th = [t \in Threads |-> IdleThread]
    /\ last = NoCall
    /\ inv = IdleInvocation
    /\ \E mode \in Modes :
         /\ references = <<[InitialReference("direct") EXCEPT !.mode = mode]>>
         /\ proxies = <<setup("Object", 1)>>
         /\ res = NoResult
    /\ builtin = NoBuiltin
    /\ compared = NoCompared
    /\ \E variant \in {"vector", "pair"}, wait \in WaitOutcomes,
          reply \in Encapsulations, out \in Encapsulations :
         /\ Ref(1).mode # "ModeTwoway" => (wait # "userException" /\ reply = <<>>)
         /\ ended = [NoEnded EXCEPT !.pc = "ready", !.variant = variant,
                                    !.wait = wait, !.reply = reply,
                                    !.outEncaps = out, !.outBefore = out]
    /\ cached = NoCached
    /\ batch = NoBatch

EndInvoke ==
    /\ ended.pc = "ready"
    /\ LET r == IF ended.variant = "vector"
                THEN end_ice_invoke(1, ended.wait, ended.reply, ended.outEncaps)
                ELSE ___end_ice_invoke(1, ended.wait, ended.reply, ended.outEncaps)
       IN  ended' = [ended EXCEPT !.pc = "ended", !.returned = r.returned,
                                  !.ok = r.ok, !.raised = r.raised,
                                  !.outEncaps = r.outEncaps]
    /\ UNCHANGED <<handlerVars, proxyVars, builtin, compared, cached, batch>>

NextEnded == EndInvoke

SpecEnded == InitEnded /\ [][NextEnded]_vars

\* ------------------------------------------------ ice_getCachedConnection
\* A thread calls ice_getCachedConnection while an invocation binds, fails and
\* retries on the same proxy.  First step, under the mutex:
\* "__handler = _requestHandler".
CachedRead ==
    /\ cached.pc = "idle"
    /\ cached' = [NoCached EXCEPT !.pc = "read", !.handler = _requestHandler]
    /\ UNCHANGED <<handlerVars, proxyVars, builtin, compared, ended, batch>>

\* Second step, outside the mutex: getConnection on the handler that was read.
CachedReturn ==
    /\ cached.pc = "read"
    /\ \E threw \in BOOLEAN :
         LET r == ice_getCachedConnection(cached.handler, threw)
         IN  cached' = [cached EXCEPT !.pc = "returned",
                                      !.threw = (threw /\ cached.handler # Null),
                                      !.ret = r.ret, !.raised = r.raised]
    /\ UNCHANGED <<handlerVars, proxyVars, builtin, compared, ended, batch>>

\* The caller has taken the result and may call again.
CachedDone ==
    /\ cached.pc = "returned"
    /\ cached' = NoCached
    /\ UNCHANGED <<handlerVars, proxyVars, builtin, compared, ended, batch>>

NextCached ==
    \/ Invoke
    \/ InvokeGetRequestHandler
    \/ InvokeSetRequestHandler
    \/ InvokeSubmit
    \/ InvokeHandleException
    \/ InvokeRetry
    \/ CachedRead
    \/ CachedReturn
    \/ CachedDone

SpecCached == Init /\ [][NextCached]_vars

\* ------------------------------------- derivations from a proxy in use
\* The client holds the bootstrap proxy, invokes on it and on the proxies it
\* derives, and lets go of each derived proxy after looking at it.
InitHeld ==
    /\ cacheConnection = TRUE
    /\ _requestHandler = Null
    /\ nextHandler = 1
    /\ th = [t \in Threads |-> IdleThread]
    /\ last = NoCall
    /\ inv = IdleInvocation
    /\ \E type \in ProxyTypes, addressing \in {"direct", "indirect"} :
         OneProxy(type, addressing)
    /\ builtin = NoBuiltin
    /\ NoOtherCalls

\* An invocation on proxy p gets its request handler: the cached one, or one
\* from the Reference, which offers it to __setRequestHandler.
HeldGetRequestHandler(p) ==
    /\ LET cache == Ref(p).cacheConnection
           slot == proxies[p]._requestHandler
           h == __getRequestHandler(cache, slot, nextHandler)
       IN  /\ h <= MaxHandlers
           /\ nextHandler' = IF h = nextHandler THEN nextHandler + 1 ELSE nextHandler
           /\ proxies' = [proxies EXCEPT ![p]._requestHandler =
                             IF h = nextHandler
                             THEN __setRequestHandler(cache, slot, h).slot
                             ELSE slot]
    /\ UNCHANGED <<cacheConnection, _requestHandler, th, last, inv>>
    /\ UNCHANGED <<references, res, builtin, otherVars>>

\* A batch invocation on proxy p calls __getBatchRequestQueue.
HeldGetBatchRequestQueue(p) ==
    /\ LET r == __getBatchRequestQueue(proxies[p]._batchRequestQueue, batch.next)
       IN  /\ r.asked => batch.next <= MaxQueues
           /\ proxies' = [proxies EXCEPT ![p]._batchRequestQueue = r.slot]
           /\ batch' = [batch EXCEPT !.next = IF r.asked THEN @ + 1 ELSE @,
                                     !.asked[p] = IF r.asked THEN @ + 1 ELSE @]
    /\ UNCHANGED <<handlerVars, references, res, builtin, compared, ended, cached>>

\* The client has taken what the call returned or threw; a proxy the call
\* made has no holder left and is destroyed, with the Reference made for it.
Release ==
    /\ res.op # "none"
    /\ res' = NoResult
    /\ proxies' = SubSeq(proxies, 1, res.proxiesBefore)
    /\ references' =
         SubSeq(references, 1,
                CHOOSE n \in 1..Len(references) :
                    /\ \E p \in 1..res.proxiesBefore : proxies[p]._reference = n
                    /\ \A p \in 1..res.proxiesBefore : proxies[p]._reference <= n)
    /\ batch' = [batch EXCEPT !.asked =
                    [p \in 1..MaxProxies |-> IF p <= res.proxiesBefore THEN @[p] ELSE 0]]
    /\ UNCHANGED <<handlerVars, builtin, compared, ended, cached>>

NextHeld ==
    \/ \E p \in Held, v \in Identities : Derive("ice_identity", p, v, ice_identity(p, v))
    \/ \E p \in Held, v \in Contexts : Derive("ice_context", p, v, ice_context(p, v))
    \/ \E p \in Held, v \in Facets : Derive("ice_facet", p, v, ice_facet(p, v))
    \/ \E p \in Held, v \in AdapterIds : Derive("ice_adapterId", p, v, ice_adapterId(p, v))
    \/ \E p \in Held, v \in EndpointSeqs : Derive("ice_endpoints", p, v, ice_endpoints(p, v))
    \/ \E p \in Held, v \in Timeouts :
         Derive("ice_locatorCacheTimeout", p, v, ice_locatorCacheTimeout(p, v))
    \/ \E p \in Held, v \in BOOLEAN :
         Derive("ice_connectionCached", p, v, ice_connectionCached(p, v))
    \/ \E p \in Held, v \in EndpointSelectionTypes :
         Derive("ice_endpointSelection", p, v, ice_endpointSelection(p, v))
    \/ \E p \in Held, v \in BOOLEAN : Derive("ice_secure", p, v, ice_secure(p, v))
    \/ \E p \in Held, v \in EncodingVersions :
         Derive("ice_encodingVersion", p, v, ice_encodingVersion(p, v))
    \/ \E p \in Held, v \in BOOLEAN : Derive("ice_preferSecure", p, v, ice_preferSecure(p, v))
    \/ \E p \in Held, v \in RouterPrxs : Derive("ice_router", p, v, ice_router(p, v))
    \/ \E p \in Held, v \in LocatorPrxs : Derive("ice_locator", p, v, ice_locator(p, v))
    \/ \E p \in Held, v \in BOOLEAN :
         Derive("ice_collocationOptimized", p, v, ice_collocationOptimized(p, v))
    \/ \E p \in Held, v \in Timeouts :
         Derive("ice_invocationTimeout", p, v, ice_invocationTimeout(p, v))
    \/ \E p \in Held : Derive("ice_twoway", p, "ModeTwoway", ice_twoway(p))
    \/ \E p \in Held : Derive("ice_oneway", p, "ModeOneway", ice_oneway(p))
    \/ \E p \in Held : Derive("ice_batchOneway", p, "ModeBatchOneway", ice_batchOneway(p))
    \/ \E p \in Held : Derive("ice_datagram", p, "ModeDatagram", ice_datagram(p))
    \/ \E p \in Held :
         Derive("ice_batchDatagram", p, "ModeBatchDatagram", ice_batchDatagram(p))
    \/ \E p \in Held, v \in BOOLEAN : Derive("ice_compress", p, v, ice_compress(p, v))
    \/ \E p \in Held, v \in Timeouts : Derive("ice_timeout", p, v, ice_timeout(p, v))
    \/ \E p \in Held, v \in ConnectionIds :
         Derive("ice_connectionId", p, v, ice_connectionId(p, v))
    \/ Release
    \/ \E p \in Held : HeldGetRequestHandler(p)
    \/ \E p \in Held : HeldGetBatchRequestQueue(p)

SpecHeld == InitHeld /\ [][NextHeld]_vars

\* ------------------------------------------- threads sharing a batch queue
\* Threads call __getBatchRequestQueue on the proxies the client holds: the
\* bootstrap proxy and the batch proxies made from it.
InitBatch == Init /\ cacheConnection = TRUE

\* Thread t calls __getBatchRequestQueue on proxy p and waits for the mutex.
BatchCall(t, p) ==
    /\ batch.got[t].pc = "idle"
    /\ batch' = [batch EXCEPT !.got[t] = [pc |-> "calling", proxy |-> p, queue |-> Null]]
    /\ UNCHANGED <<handlerVars, proxyVars, builtin, compared, ended, cached>>

\* Thread t has the mutex: the body of __getBatchRequestQueue.
BatchBody(t) ==
    /\ batch.got[t].pc = "calling"
    /\ LET p == batch.got[t].proxy
           r == __getBatchRequestQueue(proxies[p]._batchRequestQueue, batch.next)
       IN  /\ r.asked => batch.next <= MaxQueues
           /\ proxies' = [proxies EXCEPT ![p]._batchRequestQueue = r.slot]
           /\ batch' = [batch EXCEPT !.next = IF r.asked THEN @ + 1 ELSE @,
                                     !.asked[p] = IF r.asked THEN @ + 1 ELSE @,
                                     !.got[t].pc = "returned",
                                     !.got[t].queue = r.ret]
    /\ UNCHANGED <<handlerVars, references, res, builtin, compared, ended, cached>>

\* Thread t has used the queue.
BatchDone(t) ==
    /\ batch.got[t].pc = "returned"
    /\ batch' = [batch EXCEPT !.got[t] = [pc |-> "idle", proxy |-> 0, queue |-> Null]]
    /\ UNCHANGED <<handlerVars, proxyVars, builtin, compared, ended, cached>>

NextBatch ==
    \/ \E p \in Held : Derive("ice_batchOneway", p, "ModeBatchOneway", ice_batchOneway(p))
    \/ \E p \in Held :
         Derive("ice_batchDatagram", p, "ModeBatchDatagram", ice_batchDatagram(p))
    \/ Return
    \/ \E t \in Threads, p \in Held : BatchCall(t, p)
    \/ \E t \in Threads : BatchBody(t)
    \/ \E t \in Threads : BatchDone(t)

SpecBatch == InitBatch /\ [][NextBatch]_vars

\* ------------------------------------------------------------------ claims
\* A thread that is past __setRequestHandler (or found a cached handler).
Bound(t) == th[t].pc \in {"submit", "done", "failed"}

\* C1: first-writer-wins install.  On a fresh proxy with cacheConnection on,
\* however the threads' __getRequestHandler and __setRequestHandler calls
\* interleave, every thread that is past __setRequestHandler holds the handler
\* that is in the cached slot: one handler is installed, every call returned
\* it, and no later __setRequestHandler replaced it.
C1_FirstWriterWins ==
    cacheConnection =>
        \A t \in Threads :
            Bound(t) => /\ _requestHandler # Null
                        /\ th[t].handler = _requestHandler

\* Two threads each obtained a handler of their own from the Reference and
\* both came out of __setRequestHandler with the same one.
C1_Witness ==
    /\ cacheConnection
    /\ nextHandler >= 3
    /\ \E t1, t2 \in Threads :
         /\ t1 # t2
         /\ Bound(t1) /\ Bound(t2)
         /\ th[t1].handler = th[t2].handler
         /\ th[t1].handler = _requestHandler

\* C2 as claimed: after any __handleException call the cached slot is empty,
\* whatever handler was cached.
C2_AlwaysCleared ==
    last.op = "handleException" => _requestHandler = Null

\* C2 as amended: __handleException(ex, handler, ...) empties the cached slot
\* when the cached handler is the failing handler itself (cacheConnection on
\* and handler not null); a cached handler that is another instance, and an
\* empty slot, are left as they were.
C2_ClearedIfSame ==
    last.op = "handleException" =>
        _requestHandler =
            IF cacheConnection /\ last.previous # Null /\ last.before = last.previous
            THEN Null
            ELSE last.before

\* __handleException has emptied a slot that held the failing handler.
C2_Witness ==
    /\ last.op = "handleException"
    /\ last.before # Null
    /\ last.before = last.previous
    /\ _requestHandler = Null

\* The retry condition as the claim states it.
ClaimRetryEligible(ex, mode, sent) ==
    /\ ex \in LocalExceptions
    /\ \/ sent = FALSE
       \/ mode = "Nonmutating"
       \/ mode = "Idempotent"
       \/ ex = "CloseConnectionException"
       \/ ex = "ObjectNotExistException"

\* __handleException has just run for the invocation.
Handled == inv.pc \in {"retry", "raised"}

\* C3: __handleException consults the retry policy exactly when ex is a local
\* exception and (the request was not sent, or the mode is Nonmutating or
\* Idempotent, or ex is a CloseConnectionException or an
\* ObjectNotExistException); in every other case it rethrows ex, returns no
\* delay and leaves cnt as it was.
C3_RetryClassification ==
    Handled =>
        /\ inv.consulted <=>
               ClaimRetryEligible(inv.failure.ex, inv.mode, inv.failure.sent)
        /\ ~inv.consulted =>
               /\ inv.raised = inv.failure.ex
               /\ ~inv.returned
               /\ inv.cnt = inv.failure.cnt
               /\ inv.pc = "raised"

\* A Normal-mode request that was sent failed with a plain local exception:
\* it was rethrown without the policy being asked.
C3_Witness ==
    /\ inv.pc = "raised"
    /\ inv.mode = "Normal"
    /\ inv.failure.sent
    /\ inv.failure.ex = "ConnectTimeoutException"
    /\ inv.raised = "ConnectTimeoutException"
    /\ ~inv.consulted

\* C4: at-most-once.  An operation whose mode is neither Nonmutating nor
\* Idempotent is handed to a handler again (and so can reach the wire again)
\* only after a failure that was a local exception and was not sent, or was a
\* CloseConnectionException or an ObjectNotExistException.
C4_AtMostOnce ==
    ( /\ inv.mode \notin {"Nonmutating", "Idempotent"}
      /\ inv.attempts >= 2
      /\ inv.pc \in {"done", "failed"} )
    => /\ inv.failure.ex \in LocalExceptions
       /\ \/ ~inv.failure.sent
          \/ inv.failure.ex = "CloseConnectionException"
          \/ inv.failure.ex = "ObjectNotExistException"

\* A Normal-mode request went to the wire, failed, and went to the wire again.
C4_Witness ==
    /\ inv.mode = "Normal"
    /\ inv.attempts >= 2
    /\ inv.pc \in {"done", "failed"}
    /\ inv.failure.sent
    /\ inv.sent

\* C5: __updateRequestHandler(previous, handler) replaces the cached handler
\* only if the cached handler is the instance `previous`; with another
\* instance cached, an empty slot, cacheConnection off, or the slot already
\* equal to `handler`, the slot is left as it was.
C5_UpdateOnlyIfPrevious ==
    last.op = "update" =>
        /\ _requestHandler # last.before => last.before = last.previous
        /\ ( \/ last.before # last.previous
             \/ last.before = Null
             \/ ~cacheConnection
             \/ last.before = last.handler )
           => _requestHandler = last.before

\* An update call replaced the cached handler.
C5_Witness ==
    /\ last.op = "update"
    /\ last.before # Null
    /\ _requestHandler # last.before
    /\ _requestHandler = last.handler

\* C6: when the retry policy raises CommunicatorDestroyedException, the
\* exception that leaves __handleException is the invocation's own exception
\* and no delay is returned.
C6_DestroyedKeepsOriginal ==
    (Handled /\ inv.policy = "destroyed") =>
        /\ inv.raised = inv.failure.ex
        /\ ~inv.returned
        /\ inv.pc = "raised"

\* The policy was consulted and raised CommunicatorDestroyedException.
C6_Witness ==
    /\ inv.pc = "raised"
    /\ inv.consulted
    /\ inv.policy = "destroyed"

\* The call of the built-in operation has been made.
Called == builtin.pc = "called"

\* C7: on a proxy that is not two-way, ice_isA, ice_id and ice_ids raise
\* TwowayOnlyException from the synchronous call site and
\* IllegalArgumentException from the asynchronous one, before an invocation
\* object exists and with nothing submitted; ice_ping is submitted whatever
\* the mode.
C7_TwowayOnly ==
    Called =>
        IF builtin.op \in {"ice_isA", "ice_ids", "ice_id"} /\ builtin.mode # "ModeTwoway"
        THEN /\ builtin.raised = IF builtin.sync
                                 THEN "TwowayOnlyException"
                                 ELSE "IllegalArgumentException"
             /\ ~builtin.created
             /\ ~builtin.submitted
        ELSE builtin.op = "ice_ping" =>
                 builtin.raised = "none" /\ builtin.submitted

\* The derivations of the attributes that have a getter, and the mode helpers.
GetterOperations ==
    {"ice_identity", "ice_context", "ice_facet", "ice_adapterId", "ice_endpoints",
     "ice_locatorCacheTimeout", "ice_connectionCached", "ice_endpointSelection",
     "ice_secure", "ice_preferSecure", "ice_encodingVersion", "ice_router",
     "ice_locator", "ice_collocationOptimized", "ice_invocationTimeout",
     "ice_connectionId"}
ModeHelpers ==
    {"ice_twoway", "ice_oneway", "ice_batchOneway", "ice_datagram", "ice_batchDatagram"}

\* get_X of proxy p, for the derivation with_X named op.
Getter(op, p) ==
    CASE op = "ice_identity" -> ice_getIdentity(p)
      [] op = "ice_context" -> ice_getContext(p)
      [] op = "ice_facet" -> ice_getFacet(p)
      [] op = "ice_adapterId" -> ice_getAdapterId(p)
      [] op = "ice_endpoints" -> ice_getEndpoints(p)
      [] op = "ice_locatorCacheTimeout" -> ice_getLocatorCacheTimeout(p)
      [] op = "ice_connectionCached" -> ice_isConnectionCached(p)
      [] op = "ice_endpointSelection" -> ice_getEndpointSelection(p)
      [] op = "ice_secure" -> ice_isSecure(p)
      [] op = "ice_preferSecure" -> ice_isPreferSecure(p)
      [] op = "ice_encodingVersion" -> ice_getEncodingVersion(p)
      [] op = "ice_router" -> ice_getRouter(p)
      [] op = "ice_locator" -> ice_getLocator(p)
      [] op = "ice_collocationOptimized" -> ice_isCollocationOptimized(p)
      [] op = "ice_invocationTimeout" -> ice_getInvocationTimeout(p)
      [] op = "ice_connectionId" -> ice_getConnectionId(p)
      [] op = "ice_twoway" -> IF ice_isTwoway(p) THEN "ModeTwoway" ELSE "other"
      [] op = "ice_oneway" -> IF ice_isOneway(p) THEN "ModeOneway" ELSE "other"
      [] op = "ice_batchOneway" -> IF ice_isBatchOneway(p) THEN "ModeBatchOneway" ELSE "other"
      [] op = "ice_datagram" -> IF ice_isDatagram(p) THEN "ModeDatagram" ELSE "other"
      [] op = "ice_batchDatagram" ->
           IF ice_isBatchDatagram(p) THEN "ModeBatchDatagram" ELSE "other"
      [] op = "ice_compress" -> Ref(p).compress.override /\ Ref(p).compress.value
      [] op = "ice_timeout" -> Ref(p).timeout

\* C8: with_X(get_X()) is the proxy itself, for every attribute with a getter
\* and for every mode helper called on a proxy already in that mode.
C8_DerivationSharing ==
    ( /\ res.op \in GetterOperations \cup ModeHelpers
      /\ res.arg = Getter(res.op, res.src) )
    => /\ res.outcome = "this"
       /\ res.ret = res.src

\* The Reference attribute that each derivation sets, and the attribute that
\* changing it clears.
AttributeOf(op) ==
    CASE op = "ice_identity" -> "identity"
      [] op = "ice_context" -> "context"
      [] op = "ice_facet" -> "facet"
      [] op = "ice_adapterId" -> "adapterId"
      [] op = "ice_endpoints" -> "endpoints"
      [] op = "ice_locatorCacheTimeout" -> "locatorCacheTimeout"
      [] op = "ice_connectionCached" -> "cacheConnection"
      [] op = "ice_endpointSelection" -> "endpointSelection"
      [] op = "ice_secure" -> "secure"
      [] op = "ice_preferSecure" -> "preferSecure"
      [] op = "ice_encodingVersion" -> "encoding"
      [] op = "ice_router" -> "router"
      [] op = "ice_locator" -> "locator"
      [] op = "ice_collocationOptimized" -> "collocationOptimized"
      [] op = "ice_invocationTimeout" -> "invocationTimeout"
      [] op = "ice_connectionId" -> "connectionId"
      [] op = "ice_compress" -> "compress"
      [] op = "ice_timeout" -> "timeout"
      [] OTHER -> "mode"

CoupledWith(op) ==
    CASE op = "ice_endpoints" -> {"adapterId"}
      [] op = "ice_adapterId" -> {"endpoints"}
      [] OTHER -> {}

Attributes == DOMAIN InitialReference("direct")

\* C9: the proxy that with_X(v) returns reports get_X() = v, and each of its
\* other attributes is the source proxy's, except that changing the endpoints
\* clears the adapter id and changing the adapter id clears the endpoints.
C9_DerivedAttribute ==
    res.outcome \in {"new", "this"} =>
        /\ Getter(res.op, res.ret) = res.arg
        /\ \A a \in Attributes \ ({AttributeOf(res.op)} \cup CoupledWith(res.op)) :
               Ref(res.ret)[a] = Ref(res.src)[a]
        /\ res.outcome = "new" =>
               /\ res.op = "ice_endpoints" => Ref(res.ret).adapterId = ""
               /\ res.op = "ice_adapterId" => Ref(res.ret).endpoints = <<>>

\* A proxy reached through its endpoints was given an adapter id: the new
\* proxy has the adapter id and no endpoints.
C9_Witness ==
    /\ res.outcome = "new"
    /\ res.op = "ice_adapterId"
    /\ Ref(res.src).endpoints # <<>>
    /\ ice_getAdapterId(res.ret) = "adapter"
    /\ ice_getEndpoints(res.ret) = <<>>

TimeoutOperations == {"ice_locatorCacheTimeout", "ice_invocationTimeout", "ice_timeout"}

\* C10: ice_locatorCacheTimeout(t) throws IllegalArgumentException exactly
\* when t < -1, ice_invocationTimeout(t) exactly when t < 1 and t is neither
\* -1 nor -2, ice_timeout(t) exactly when t < 1 and t # -1; when it throws, no
\* proxy is returned or made and the source proxy is as it was; no proxy
\* carries a timeout out of range.
C10_TimeoutValidation ==
    /\ res.op = "ice_locatorCacheTimeout" =>
           (res.outcome = "throw" <=> res.arg < -1)
    /\ res.op = "ice_invocationTimeout" =>
           (res.outcome = "throw" <=> (res.arg < 1 /\ res.arg # -1 /\ res.arg # -2))
    /\ res.op = "ice_timeout" =>
           (res.outcome = "throw" <=> (res.arg < 1 /\ res.arg # -1))
    /\ (res.op \in TimeoutOperations /\ res.outcome = "throw") =>
           /\ res.ex = "IllegalArgumentException"
           /\ res.ret = 0
           /\ Len(proxies) = res.proxiesBefore
           /\ proxies[res.src] = res.srcBefore
    /\ \A p \in Held :
           /\ Ref(p).locatorCacheTimeout >= -1
           /\ Ref(p).invocationTimeout \in {-2, -1} \/ Ref(p).invocationTimeout >= 1
           /\ Ref(p).timeout = -1 \/ Ref(p).timeout >= 1

\* ice_invocationTimeout(0) has thrown, and a proxy made with
\* ice_invocationTimeout(-2) is held.
C10_Witness ==
    /\ res.op = "ice_invocationTimeout"
    /\ res.arg = 0
    /\ res.outcome = "throw"
    /\ \E p \in Held : ice_getInvocationTimeout(p) = -2

\* C11: ice_identity with an empty identity name throws
\* IllegalIdentityException and makes no proxy; the bootstrap proxy has a
\* non-empty identity name, and so has every proxy derived from it.
C11_IdentityNeverEmpty ==
    /\ (res.op = "ice_identity" /\ res.arg.name = "") =>
           /\ res.outcome = "throw"
           /\ res.ex = "IllegalIdentityException"
           /\ res.ret = 0
           /\ Len(proxies) = res.proxiesBefore
    /\ \A p \in Held : ice_getIdentity(p).name # ""

\* ice_identity with an empty name has thrown on a proxy that was itself
\* made by ice_identity.
C11_Witness ==
    /\ res.op = "ice_identity"
    /\ res.arg.name = ""
    /\ res.outcome = "throw"
    /\ res.src = 2
    /\ ice_getIdentity(res.src).name = "bob"

\* C12: proxyIdentityEqual is true exactly when both handles are null or both
\* are proxies with equal identities; proxyIdentityAndFacetEqual requires
\* equal facets as well; both Less comparators put a null handle before every
\* proxy and never put a handle before a null handle; two proxies with the
\* same identity and different facets are identity-equal, not
\* identity-and-facet-equal and not ==.
C12_Comparators ==
    compared.op = "compared" =>
        LET l == compared.lhs
            r == compared.rhs
            bothNull == l = Null /\ r = Null
            bothProxies == l # Null /\ r # Null
        IN  /\ compared.identityEqual <=>
                 (bothNull \/ (bothProxies /\ ice_getIdentity(l) = ice_getIdentity(r)))
            /\ compared.identityAndFacetEqual <=>
                 (bothNull \/ (bothProxies /\ ice_getIdentity(l) = ice_getIdentity(r)
                                           /\ ice_getFacet(l) = ice_getFacet(r)))
            /\ (l = Null /\ r # Null) =>
                 (compared.identityLess /\ compared.identityAndFacetLess)
            /\ r = Null =>
                 (~compared.identityLess /\ ~compared.identityAndFacetLess)
            /\ (bothProxies /\ ice_getIdentity(l) = ice_getIdentity(r)
                            /\ ice_getFacet(l) # ice_getFacet(r)) =>
                 /\ compared.identityEqual
                 /\ ~compared.identityAndFacetEqual
                 /\ ~compared.equal

\* The bootstrap proxy was compared with the proxy that ice_facet("admin")
\* made from it.
C12_Witness ==
    /\ compared.op = "compared"
    /\ compared.lhs = 1
    /\ compared.rhs = 2
    /\ ice_getFacet(1) = ""
    /\ ice_getFacet(2) = "admin"
    /\ ice_getIdentity(1) = ice_getIdentity(2)
    /\ compared.identityEqual
    /\ ~compared.identityAndFacetEqual
    /\ ~compared.equal

\* C13: when the end of ice_invoke returns, it returns true for a user-level
\* success and false for a user exception, whatever the mode; the caller's
\* output buffer holds the reply's encapsulation when the proxy is two-way
\* and is as it was for every other mode.
C13_InvokeResult ==
    (ended.pc = "ended" /\ ended.returned) =>
        /\ ended.ok <=> (ended.wait = "ok")
        /\ ended.wait = "userException" => ~ended.ok
        /\ IF ice_isTwoway(1)
           THEN ended.outEncaps = ended.reply
           ELSE ended.outEncaps = ended.outBefore

\* end_ice_invoke has returned true on a one-way proxy whose caller passed a
\* buffer that was not empty.
C13_Witness ==
    /\ ended.pc = "ended"
    /\ ended.returned
    /\ ended.ok
    /\ ice_isOneway(1)
    /\ ended.variant = "vector"
    /\ ended.outBefore = <<1, 0>>
    /\ ended.outEncaps = <<1, 0>>

\* C14: no step of ice_getCachedConnection asks the Reference for a request
\* handler or changes the cached slot; it looks at the handler that is in the
\* slot, and it returns null when there was none or when that handler's
\* getConnection threw a local exception, else that handler's connection.
C14_CachedConnectionNeverBinds ==
    [][cached' # cached =>
          /\ _requestHandler' = _requestHandler
          /\ nextHandler' = nextHandler
          /\ cached'.pc = "read" => cached'.handler = _requestHandler
          /\ cached'.pc = "returned" =>
               /\ cached'.handler = cached.handler
               /\ cached'.raised = "none"
               /\ cached'.ret = IF cached'.handler = Null \/ cached'.threw
                                THEN Null
                                ELSE ConnectionOf(cached'.handler)]_vars

\* ice_getCachedConnection returned null because getConnection threw on the
\* cached handler, which is still the cached handler.
C14_Witness ==
    /\ cached.pc = "returned"
    /\ cached.handler = 1
    /\ cached.threw
    /\ cached.ret = Null
    /\ _requestHandler = 1

\* The value that the Reference attribute of a derivation has after
\* ice_X(arg).
AttributeValue(op, arg) ==
    IF op = "ice_compress" THEN [override |-> TRUE, value |-> arg] ELSE arg

\* A step in which an ice_X call is made.
DeriveStep == res.op = "none" /\ res'.op # "none"

\* C15: a derivation that returns a proxy other than the one it was called on
\* returns a new proxy of the source proxy's most-derived type, ice_identity
\* and ice_facet included, with the derived Reference and with an empty
\* request-handler slot and an empty batch-queue slot, whatever the source
\* proxy has cached.
C15_NewProxyMostDerivedEmpty ==
    [][(DeriveStep /\ res'.outcome = "new") =>
          LET made == proxies'[res'.ret]
          IN  /\ res'.ret # res'.src
              /\ res'.ret = Len(proxies) + 1
              /\ made.type = proxies[res'.src].type
              /\ references'[made._reference][AttributeOf(res'.op)] =
                     AttributeValue(res'.op, res'.arg)
              /\ made._requestHandler = Null
              /\ made._batchRequestQueue = Null]_vars

\* C16: however the threads' __getBatchRequestQueue calls on a proxy
\* interleave, the proxy asks its Reference for a batch queue at most once,
\* every call returns the queue that is in the proxy's slot, and a slot that
\* holds a queue keeps it.
C16_BatchQueueOnce ==
    [][/\ \A p \in 1..Len(proxies) :
            proxies[p]._batchRequestQueue # Null =>
                proxies'[p]._batchRequestQueue = proxies[p]._batchRequestQueue
       /\ \A p \in 1..MaxProxies : batch'.asked[p] <= 1
       /\ \A t \in Threads :
            batch'.got[t].pc = "returned" =>
                /\ batch'.got[t].queue # Null
                /\ batch'.got[t].queue =
                       proxies'[batch'.got[t].proxy]._batchRequestQueue]_vars

\* Every thread has called on the bootstrap proxy and got the same queue, for
\* which the Reference was asked once.
C16_Witness ==
    /\ \A t \in Threads : batch.got[t].pc = "returned" /\ batch.got[t].proxy = 1
    /\ \A t, u \in Threads : batch.got[t].queue = batch.got[u].queue
    /\ batch.asked[1] = 1
    /\ proxies[1]._batchRequestQueue = batch.got[1].queue

\* C17: with cacheConnection off the cached slot is empty after every
\* __getRequestHandler, __setRequestHandler, __updateRequestHandler and
\* __handleException call; __setRequestHandler(h) returns h, and every
\* __getRequestHandler call takes a handler from the Reference.
C17_NoCacheSlotEmpty ==
    [][~cacheConnection =>
          /\ _requestHandler' = Null
          /\ \A t \in Threads :
               /\ (th[t].pc = "get" /\ th'[t].pc # "get") =>
                      /\ th'[t].handler = nextHandler
                      /\ nextHandler' = nextHandler + 1
                      /\ th'[t].pc = "set"
               /\ (th[t].pc = "set" /\ th'[t].pc # "set") =>
                      th'[t].handler = th[t].handler]_vars

\* With cacheConnection off, both handlers the Reference made were handed to
\* __setRequestHandler, one attempt went through __handleException, and the
\* last call was an __updateRequestHandler that found the slot empty.
C17_Witness ==
    /\ ~cacheConnection
    /\ _requestHandler = Null
    /\ nextHandler = 3
    /\ \E t, u \in Threads :
         /\ th[t].pc = "raised" /\ th[t].handler = 1
         /\ th[u].pc = "submit" /\ th[u].handler = 2
    /\ last.op = "update"
    /\ last.before = Null

\* C18: an __updateRequestHandler(previous, handler) whose previous handler is
\* no longer the cached one, because __handleException cleared it and the
\* slot is empty or holds another handler since, leaves the slot as it was;
\* no __updateRequestHandler call fills an empty slot.
C18_StaleUpdateNeverRebinds ==
    (cacheConnection /\ last.op = "update") =>
        /\ last.before = Null => _requestHandler = Null
        /\ last.previous # last.before => _requestHandler = last.before

\* Handler 1 was installed and then cleared by __handleException; after that
\* __updateRequestHandler(1, 2) was called and the slot is still empty.
C18_Witness ==
    /\ cacheConnection
    /\ last = Call("update", Null, 1, 2)
    /\ _requestHandler = Null
    /\ \E t \in Threads : th[t].pc = "raised" /\ th[t].handler = 1

====
